---------------------------- MODULE Spec2Model ----------------------------
(***************************************************************************)
(* Model of src/request.go: the Request builder (AddField, Expand,         *)
(* OrderBy, WithFilter, WithContext), its URL rendering (QueryParams,      *)
(* ToURL) and Execute.                                                     *)
(*                                                                         *)
(* Strings are TLA+ strings; url.Values is a function from keys to         *)
(* sequences of values; a Go map is a function whose DOMAIN is the set of  *)
(* keys present; *Field pointers are the identities in FieldObjs, whose    *)
(* flags live in the heap variable fieldFlags.                             *)
(***************************************************************************)
EXTENDS Naturals, Sequences, FiniteSets, TLC

VARIABLES
    Endpoint,          \* Request.Endpoint
    Collection,        \* Request.Collection
    ID,                \* Request.ID
    Fields,            \* Request.Fields: name -> *Field
    additionalFields,  \* Request.additionalFields: key -> value
    ctx,               \* Request.ctx
    fieldFlags,        \* heap: *Field -> [IsIncluded, IsExpanded]
    ctxDone,           \* the contexts that are canceled or past their deadline
    ret,               \* the most recent call on the Request and what it returned
    ncalls,            \* builder calls made so far
    pc,                \* where Execute is: "idle", "do", "body", "returned"
    req,               \* the http.Request Execute built: its context and URL
    res,               \* the http.Response Execute received
    dest,              \* the value v points to
    dest0,             \* history: dest when the current Execute was called
    gets,              \* GETs issued by the current Execute invocation
    nexecs,            \* Execute invocations started so far
    flags0,            \* history: each Field's flags when the program started
    expandedObjs,      \* history: the Fields passed to Expand so far
    lastInsertBy,      \* history: name -> the call that last stored under it
    lastFieldPassed,   \* history: name -> the Field last passed with that name
    lastAuxWrite,      \* history: key -> the value last written under it
    lastCtxSet,        \* history: the context of the last WithContext that returned
    interrupted        \* history: the bound context was canceled while Execute was suspended

reqVars  == <<Endpoint, Collection, ID, Fields, additionalFields, ctx>>
execVars == <<pc, req, res, dest, dest0, gets, nexecs, interrupted>>
histVars == <<flags0, expandedObjs, lastInsertBy, lastFieldPassed, lastAuxWrite, lastCtxSet>>
vars     == <<reqVars, fieldFlags, ctxDone, ret, ncalls, execVars, histVars>>

---------------------------------------------------------------------------
(* Bounds and input universes *)

MaxCalls == 3
MaxExecs == 2

FieldObjs   == {"f1", "f2", "f3"}
FieldName(f) == IF f = "f3" THEN "title" ELSE "age"
FieldNames  == {FieldName(f) : f \in FieldObjs}
FilterNames == {"age", "fields", "order"}
Filters     == {[c |-> "", value |-> "30"], [c |-> "gt", value |-> "30"],
                [c |-> "", value |-> "a b"]}
Endpoints   == {"http://api/", "http://%zz/"}
Collections == {"users"}
IDs         == {"", "42"}

Nil        == "nil"
Background == "background"
Contexts   == {Background, "c1", "c2"}

\* no http.Request built, no http.Response received
NoRequest  == [ctx |-> Nil, method |-> "", url |-> ""]
NoResponse == [StatusCode |-> 0, Body |-> "", open |-> FALSE, readErr |-> Nil]

EmptyMap == [k \in {} |-> ""]
Put(m, k, x) == [j \in DOMAIN m \cup {k} |-> IF j = k THEN x ELSE m[j]]

---------------------------------------------------------------------------
(* net/url as the code uses it *)

Ascii == " %&+,-./0123456789:=?_abcdefghijklmnopqrstuvwxyz"
Ord(c) == CHOOSE i \in 1..Len(Ascii) : SubSeq(Ascii, i, i) = c

RECURSIVE StrLess(_, _)
StrLess(a, b) ==
    IF Len(b) = 0 THEN FALSE
    ELSE IF Len(a) = 0 THEN TRUE
    ELSE LET x == Ord(SubSeq(a, 1, 1))
             y == Ord(SubSeq(b, 1, 1))
         IN IF x # y THEN x < y
            ELSE StrLess(SubSeq(a, 2, Len(a)), SubSeq(b, 2, Len(b)))

\* url.QueryEscape on one character
EscapeChar(c) ==
    CASE c = " " -> "+"
      [] c = "%" -> "%25"
      [] c = "&" -> "%26"
      [] c = "+" -> "%2B"
      [] c = "," -> "%2C"
      [] c = "/" -> "%2F"
      [] c = ":" -> "%3A"
      [] c = "=" -> "%3D"
      [] c = "?" -> "%3F"
      [] OTHER   -> c

RECURSIVE QueryEscape(_)
QueryEscape(s) ==
    IF Len(s) = 0 THEN ""
    ELSE EscapeChar(SubSeq(s, 1, 1)) \o QueryEscape(SubSeq(s, 2, Len(s)))

\* url.Values.Add appends to the values of the key
ValuesAdd(v, k, x) ==
    IF k \in DOMAIN v THEN [v EXCEPT ![k] = Append(@, x)] ELSE Put(v, k, <<x>>)

\* url.Values.Set replaces the values of the key
ValuesSet(v, k, x) == Put(v, k, <<x>>)

RECURSIVE SortedKeys(_)
SortedKeys(S) ==
    IF S = {} THEN <<>>
    ELSE LET k == CHOOSE x \in S : \A y \in S \ {x} : StrLess(x, y)
         IN <<k>> \o SortedKeys(S \ {k})

RECURSIVE EncodeKey(_, _, _)
EncodeKey(k, vs, i) ==
    IF i > Len(vs) THEN ""
    ELSE (IF i > 1 THEN "&" ELSE "") \o QueryEscape(k) \o "=" \o QueryEscape(vs[i])
         \o EncodeKey(k, vs, i + 1)

RECURSIVE EncodeFrom(_, _, _)
EncodeFrom(v, keys, i) ==
    IF i > Len(keys) THEN ""
    ELSE (IF i > 1 THEN "&" ELSE "") \o EncodeKey(keys[i], v[keys[i]], 1)
         \o EncodeFrom(v, keys, i + 1)

\* url.Values.Encode: "k=v" pairs joined by "&", keys sorted
Encode(v) == EncodeFrom(v, SortedKeys(DOMAIN v), 1)

IsHex(c) == c \in {"0", "1", "2", "3", "4", "5", "6", "7", "8", "9",
                   "a", "b", "c", "d", "e", "f"}

IndexOf(s, c) ==
    IF \E i \in 1..Len(s) : SubSeq(s, i, i) = c
    THEN CHOOSE i \in 1..Len(s) :
             SubSeq(s, i, i) = c /\ \A j \in 1..(i - 1) : SubSeq(s, j, j) # c
    ELSE 0

\* a "%" that is not followed by two hex digits
BadEscape(s) ==
    \E i \in 1..Len(s) :
        /\ SubSeq(s, i, i) = "%"
        /\ \/ i + 2 > Len(s)
           \/ ~IsHex(SubSeq(s, i + 1, i + 1))
           \/ ~IsHex(SubSeq(s, i + 2, i + 2))

\* the nil *url.URL
NoURL == [Head |-> "", RawQuery |-> "", ForceQuery |-> FALSE]

\* url.Parse: the text is cut at the first "?" into the part before it and
\* RawQuery; an invalid escape before the "?" is an error, RawQuery is kept raw
UrlParse(s) ==
    LET q    == IndexOf(s, "?")
        head == IF q = 0 THEN s ELSE SubSeq(s, 1, q - 1)
        tail == IF q = 0 THEN "" ELSE SubSeq(s, q + 1, Len(s))
    IN IF BadEscape(head)
       THEN [url |-> NoURL, err |-> "invalid URL escape"]
       ELSE [url |-> [Head |-> head, RawQuery |-> tail,
                      ForceQuery |-> (q # 0 /\ tail = "")],
             err |-> Nil]

\* url.URL.String
UrlString(u) ==
    IF u.ForceQuery \/ u.RawQuery # "" THEN u.Head \o "?" \o u.RawQuery ELSE u.Head


---------------------------------------------------------------------------
(* Field.apply and the rendering of a Request *)

\* Field.apply: an included field joins the "fields" parameter and an
\* expanded field the "expand" parameter, names separated by commas
JoinName(v, k, name) ==
    IF k \in DOMAIN v THEN [v EXCEPT ![k] = <<@[1] \o "," \o name>>]
    ELSE Put(v, k, <<name>>)

FieldApply(f, v) ==
    LET v1 == IF fieldFlags[f].IsIncluded THEN JoinName(v, "fields", FieldName(f)) ELSE v
    IN IF fieldFlags[f].IsExpanded THEN JoinName(v1, "expand", FieldName(f)) ELSE v1

RECURSIVE ApplyFields(_, _, _)
ApplyFields(order, i, v) ==
    IF i > Len(order) THEN v
    ELSE ApplyFields(order, i + 1, FieldApply(Fields[order[i]], v))

RECURSIVE AddAll(_, _)
AddAll(v, keys) ==
    IF keys = {} THEN v
    ELSE LET k == CHOOSE x \in keys : TRUE
         IN AddAll(ValuesAdd(v, k, additionalFields[k]), keys \ {k})

RECURSIVE SetAll(_, _)
SetAll(v, keys) ==
    IF keys = {} THEN v
    ELSE LET k == CHOOSE x \in keys : TRUE
         IN SetAll(ValuesSet(v, k, additionalFields[k]), keys \ {k})

\* the orders in which Go may range over r.Fields
FieldOrders ==
    {o \in [1..Cardinality(DOMAIN Fields) -> DOMAIN Fields] :
        \A i, j \in DOMAIN o : i # j => o[i] # o[j]}

QueryParamsSet(order) == SetAll(ApplyFields(order, 1, EmptyMap), DOMAIN additionalFields)

\* Request.QueryParams, the fields ranged over in the given order
QueryParams(order) == AddAll(ApplyFields(order, 1, EmptyMap), DOMAIN additionalFields)

UrlTempAlwaysQuery(order) ==
    LET temp1 == Endpoint \o Collection \o "/"
        temp2 == IF ID # "" THEN temp1 \o ID \o "/" ELSE temp1
    IN temp2 \o "?" \o Encode(QueryParams(order))

\* the text ToURL assembles
UrlTemp(order) ==
    LET temp1 == Endpoint \o Collection \o "/"
        temp2 == IF ID # "" THEN temp1 \o ID \o "/" ELSE temp1
        queryParams == Encode(QueryParams(order))
    IN IF queryParams # "" THEN temp2 \o "?" \o queryParams ELSE temp2

\* Request.ToURL
ToURL(order) == UrlParse(UrlTemp(order))

---------------------------------------------------------------------------
(* The builder calls *)

Self == [op |-> "builder", url |-> NoURL, err |-> Nil]

CanCall == pc = "idle" /\ ncalls < MaxCalls

Called == ncalls' = ncalls + 1

StoreKeepFirst(f) ==
    IF FieldName(f) \in DOMAIN Fields THEN Fields ELSE Put(Fields, FieldName(f), f)

\* r.Fields[f.Name] = f
StoreField(f) == Put(Fields, FieldName(f), f)

AddField(f) ==
    /\ CanCall
    /\ Fields' = StoreField(f)
    /\ lastInsertBy' = Put(lastInsertBy, FieldName(f), "AddField")
    /\ lastFieldPassed' = Put(lastFieldPassed, FieldName(f), f)
    /\ ret' = Self
    /\ Called
    /\ UNCHANGED <<Endpoint, Collection, ID, additionalFields, ctx, fieldFlags, ctxDone,
                   execVars, flags0, expandedObjs, lastAuxWrite, lastCtxSet>>

ExpandFlagsKeepIncluded(f) ==
    [fieldFlags EXCEPT ![f] = [IsIncluded |-> @.IsIncluded, IsExpanded |-> TRUE]]

\* f.IsExpanded = true; f.IsIncluded = false
ExpandFlags(f) ==
    [fieldFlags EXCEPT ![f] = [IsIncluded |-> FALSE, IsExpanded |-> TRUE]]

Expand(f) ==
    /\ CanCall
    /\ fieldFlags' = ExpandFlags(f)
    /\ Fields' = StoreField(f)
    /\ lastInsertBy' = Put(lastInsertBy, FieldName(f), "Expand")
    /\ lastFieldPassed' = Put(lastFieldPassed, FieldName(f), f)
    /\ expandedObjs' = expandedObjs \cup {f}
    /\ ret' = Self
    /\ Called
    /\ UNCHANGED <<Endpoint, Collection, ID, additionalFields, ctx, ctxDone,
                   execVars, flags0, lastAuxWrite, lastCtxSet>>

OrderBy(f) ==
    /\ CanCall
    /\ additionalFields' = Put(additionalFields, "order", FieldName(f))
    /\ lastAuxWrite' = Put(lastAuxWrite, "order", FieldName(f))
    /\ ret' = Self
    /\ Called
    /\ UNCHANGED <<Endpoint, Collection, ID, Fields, ctx, fieldFlags, ctxDone,
                   execVars, flags0, expandedObjs, lastInsertBy, lastFieldPassed, lastCtxSet>>

FilterKeyAlwaysSuffix(fieldName, c) == fieldName \o "__" \o c

\* the key WithFilter writes: fmt.Sprintf("%s__%s", fieldName, filter.c) if filter.c != ""
FilterKey(fieldName, c) == IF c # "" THEN fieldName \o "__" \o c ELSE fieldName

WithFilter(fieldName, filter) ==
    /\ CanCall
    /\ additionalFields' = Put(additionalFields, FilterKey(fieldName, filter.c), filter.value)
    /\ lastAuxWrite' = Put(lastAuxWrite, FilterKey(fieldName, filter.c), filter.value)
    /\ ret' = Self
    /\ Called
    /\ UNCHANGED <<Endpoint, Collection, ID, Fields, ctx, fieldFlags, ctxDone,
                   execVars, flags0, expandedObjs, lastInsertBy, lastFieldPassed, lastCtxSet>>

\* a caller's call of ToURL
RenderURL ==
    /\ pc = "idle"
    /\ ret.op # "ToURL"
    /\ \E order \in FieldOrders :
          ret' = [op |-> "ToURL", url |-> ToURL(order).url, err |-> ToURL(order).err]
    /\ UNCHANGED <<reqVars, fieldFlags, ctxDone, ncalls, execVars, histVars>>

Flags == [IsIncluded : BOOLEAN, IsExpanded : BOOLEAN]

\* a Field as a caller selecting it sets it up; "f1" starts with any flags
NewFieldFlags == [IsIncluded |-> TRUE, IsExpanded |-> FALSE]

\* NewRequest(endpoint, collection, id), with the caller's Field values on the heap
NewRequest(endpoint, collection, id) ==
    /\ Endpoint = endpoint
    /\ Collection = collection
    /\ ID = id
    /\ Fields = EmptyMap
    /\ additionalFields = EmptyMap
    /\ ctx = Background

InitRest ==
    /\ fieldFlags \in {h \in [FieldObjs -> Flags] :
                         \A f \in FieldObjs \ {"f1"} : h[f] = NewFieldFlags}
    /\ flags0 = fieldFlags
    /\ ctxDone = {}
    /\ ret = Self
    /\ ncalls = 0
    /\ pc = "idle"
    /\ req = NoRequest
    /\ res = NoResponse
    /\ dest = "zero"
    /\ dest0 = "zero"
    /\ gets = 0
    /\ nexecs = 0
    /\ lastInsertBy = EmptyMap
    /\ expandedObjs = {}
    /\ lastFieldPassed = EmptyMap
    /\ lastAuxWrite = EmptyMap
    /\ lastCtxSet = Background
    /\ interrupted = FALSE

InitBuild ==
    /\ \E id \in IDs : NewRequest("http://api/", "users", id)
    /\ InitRest

NextBuild ==
    \/ \E f \in FieldObjs : AddField(f)
    \/ \E f \in FieldObjs : Expand(f)
    \/ \E f \in FieldObjs : OrderBy(f)
    \/ \E n \in FilterNames, fl \in Filters : WithFilter(n, fl)
    \/ RenderURL

SpecBuild == InitBuild /\ [][NextBuild]_vars


---------------------------------------------------------------------------
(* WithContext, cancellation and Execute *)

WithContextNoGuard(c) ==
    /\ pc = "idle"
    /\ ctx' = c
    /\ lastCtxSet' = c
    /\ ret' = [op |-> "WithContext", url |-> NoURL, err |-> Nil]
    /\ UNCHANGED <<Endpoint, Collection, ID, Fields, additionalFields, fieldFlags, ctxDone,
                   ncalls, execVars, flags0, expandedObjs, lastInsertBy, lastFieldPassed,
                   lastAuxWrite>>

WithContext(c) ==
    /\ pc = "idle"
    /\ IF c = Nil
       THEN /\ ret' = [op |-> "WithContext", url |-> NoURL, err |-> "panic: nil context"]
            /\ UNCHANGED <<ctx, lastCtxSet>>
       ELSE /\ ctx' = c
            /\ lastCtxSet' = c
            /\ ret' = [op |-> "WithContext", url |-> NoURL, err |-> Nil]
    /\ UNCHANGED <<Endpoint, Collection, ID, Fields, additionalFields, fieldFlags, ctxDone,
                   ncalls, execVars, flags0, expandedObjs, lastInsertBy, lastFieldPassed,
                   lastAuxWrite>>

\* the owner of a cancelable context cancels it, or its deadline passes
Cancel(c) ==
    /\ c \notin ctxDone
    /\ ctxDone' = ctxDone \cup {c}
    /\ interrupted' = (interrupted \/ (pc \in {"do", "body"} /\ c = ctx))
    /\ UNCHANGED <<reqVars, fieldFlags, ret, ncalls, pc, req, res, dest, dest0, gets, nexecs,
                   histVars>>

StatusOKLow  == 200
StatusOKHigh == 300

Statuses == {199, 200, 299, 300, 404}
Bodies   == {"{x:1}", "not found"}

IsFailureStatusAbove(code) == code < StatusOKLow \/ code > StatusOKHigh

\* if res.StatusCode < 200 || res.StatusCode >= 300
IsFailureStatus(code) == code < StatusOKLow \/ code >= StatusOKHigh

\* json.Decoder.Decode into a struct{X int}
JsonDecode(body, v) ==
    IF body = "{x:1}" THEN [v |-> "X=1", err |-> Nil]
    ELSE [v |-> v, err |-> "invalid character"]

BoundCtxBackground == Background

\* the context handed to http.NewRequestWithContext
BoundCtx == ctx

NoClose(r) == r

\* defer res.Body.Close()
DeferredClose(r) == [r EXCEPT !.open = FALSE]

Returned(e) == [op |-> "Execute", url |-> NoURL, err |-> e]

\* Execute up to the call of http.DefaultClient.Do
ExecuteStart ==
    /\ pc = "idle"
    /\ nexecs < MaxExecs
    /\ nexecs' = nexecs + 1
    /\ dest0' = dest
    /\ res' = NoResponse
    /\ interrupted' = FALSE
    /\ \E order \in FieldOrders :
          LET u == ToURL(order) IN
          IF u.err # Nil
          THEN /\ ret' = Returned(u.err)
               /\ gets' = 0
               /\ UNCHANGED <<pc, req>>
          ELSE IF BoundCtx = Nil
          THEN /\ ret' = Returned("net/http: nil Context")
               /\ gets' = 0
               /\ UNCHANGED <<pc, req>>
          ELSE /\ req' = [ctx |-> BoundCtx, method |-> "GET", url |-> UrlString(u.url)]
               /\ gets' = 1
               /\ pc' = "do"
               /\ ret' = [op |-> "Execute", url |-> NoURL, err |-> "pending"]
    /\ UNCHANGED <<reqVars, fieldFlags, ctxDone, ncalls, dest, histVars>>

ExecFrame == UNCHANGED <<reqVars, fieldFlags, ctxDone, ncalls, dest0, gets, nexecs,
                         interrupted, histVars>>

DoTransportErrorRetry ==
    /\ pc = "do"
    /\ IF gets < 2
       THEN /\ gets' = gets + 1
            /\ UNCHANGED <<pc, ret>>
       ELSE /\ pc' = "idle"
            /\ ret' = Returned("dial tcp: connection refused")
            /\ UNCHANGED gets
    /\ UNCHANGED <<req, res, dest>>
    /\ UNCHANGED <<reqVars, fieldFlags, ctxDone, ncalls, dest0, nexecs, interrupted, histVars>>

\* Do fails in the transport: return err
DoTransportError ==
    /\ pc = "do"
    /\ pc' = "idle"
    /\ ret' = Returned("dial tcp: connection refused")
    /\ UNCHANGED <<req, res, dest>>
    /\ ExecFrame

\* Do observes that the request's context is done: return err
DoCanceled ==
    /\ pc = "do"
    /\ req.ctx \in ctxDone
    /\ pc' = "idle"
    /\ ret' = Returned("context canceled")
    /\ UNCHANGED <<req, res, dest>>
    /\ ExecFrame

\* Do returns the server's response
DoResponse(status, body) ==
    /\ pc = "do"
    /\ req.ctx \notin ctxDone
    /\ pc' = "body"
    /\ res' = [StatusCode |-> status, Body |-> body, open |-> TRUE, readErr |-> Nil]
    /\ UNCHANGED <<req, ret, dest>>
    /\ ExecFrame

\* non-2xx, ioutil.ReadAll succeeds: errors.New(string(message))
ErrorBodyRead ==
    /\ pc = "body"
    /\ IsFailureStatus(res.StatusCode)
    /\ req.ctx \notin ctxDone
    /\ pc' = "idle"
    /\ ret' = Returned(res.Body)
    /\ res' = DeferredClose(res)
    /\ UNCHANGED <<req, dest>>
    /\ ExecFrame

\* non-2xx, ioutil.ReadAll fails (the connection breaks, or the context is done)
ErrorBodyReadFails(cause) ==
    /\ pc = "body"
    /\ IsFailureStatus(res.StatusCode)
    /\ cause = "context canceled" <=> req.ctx \in ctxDone
    /\ pc' = "idle"
    /\ ret' = Returned("Unable to read error message from server: " \o cause)
    /\ res' = DeferredClose([res EXCEPT !.readErr = cause])
    /\ UNCHANGED <<req, dest>>
    /\ ExecFrame

\* 2xx: json.NewDecoder(res.Body).Decode(v), the body read to its end
Decode ==
    /\ pc = "body"
    /\ ~IsFailureStatus(res.StatusCode)
    /\ req.ctx \notin ctxDone
    /\ pc' = "idle"
    /\ ret' = Returned(JsonDecode(res.Body, dest).err)
    /\ dest' = JsonDecode(res.Body, dest).v
    /\ res' = DeferredClose(res)
    /\ UNCHANGED req
    /\ ExecFrame

\* 2xx: the decoder's read of the body fails
DecodeReadFails(cause) ==
    /\ pc = "body"
    /\ ~IsFailureStatus(res.StatusCode)
    /\ cause = "context canceled" <=> req.ctx \in ctxDone
    /\ pc' = "idle"
    /\ ret' = Returned(cause)
    /\ res' = DeferredClose([res EXCEPT !.readErr = cause])
    /\ UNCHANGED <<req, dest>>
    /\ ExecFrame

ReadCauses == {"unexpected EOF", "context canceled"}

InitExec ==
    /\ \E e \in Endpoints, id \in IDs :
          /\ Endpoint = e
          /\ Collection = "users"
          /\ ID = id
    /\ Fields = EmptyMap
    /\ additionalFields \in {EmptyMap, Put(EmptyMap, "age__gt", "30")}
    /\ ctx = Background
    /\ fieldFlags = [f \in FieldObjs |-> NewFieldFlags]
    /\ flags0 = fieldFlags
    /\ ctxDone = {}
    /\ ret = Self
    /\ ncalls = 0
    /\ pc = "idle"
    /\ req = NoRequest
    /\ res = NoResponse
    /\ dest = "zero"
    /\ dest0 = "zero"
    /\ gets = 0
    /\ nexecs = 0
    /\ lastInsertBy = EmptyMap
    /\ expandedObjs = {}
    /\ lastFieldPassed = EmptyMap
    /\ lastAuxWrite = additionalFields
    /\ lastCtxSet = Background
    /\ interrupted = FALSE

NextExec ==
    \/ \E c \in Contexts \cup {Nil} : WithContext(c)
    \/ \E c \in Contexts \ {Background} : Cancel(c)
    \/ ExecuteStart
    \/ DoTransportError
    \/ DoCanceled
    \/ \E status \in Statuses, body \in Bodies : DoResponse(status, body)
    \/ ErrorBodyRead
    \/ \E cause \in ReadCauses : ErrorBodyReadFails(cause)
    \/ Decode
    \/ \E cause \in ReadCauses : DecodeReadFails(cause)

SpecExec == InitExec /\ [][NextExec]_vars

\* a done context makes the suspended call return: net/http's contract
FairExec ==
    /\ WF_vars(DoCanceled)
    /\ WF_vars(ErrorBodyReadFails("context canceled"))
    /\ WF_vars(DecodeReadFails("context canceled"))

SpecExecFair == SpecExec /\ FairExec


---------------------------------------------------------------------------
(* Properties *)

Included(f) == fieldFlags[f].IsIncluded
Expanded(f) == fieldFlags[f].IsExpanded

\* the parameters the fields alone contribute, and the keys of a rendering
FieldParams(order) == ApplyFields(order, 1, EmptyMap)

C7_FlagsExclusive ==
    \A n \in DOMAIN Fields :
        /\ ~(Included(Fields[n]) /\ Expanded(Fields[n]))
        /\ lastInsertBy[n] = "AddField" => Included(Fields[n])
        /\ lastInsertBy[n] = "Expand" => (Expanded(Fields[n]) /\ ~Included(Fields[n]))

\* C7 amended: every Field passed to Expand is expanded and not included, a
\* name last stored by Expand holds such a Field, and AddField changes no
\* flag: a Field never passed to Expand has the flags it started with.
C7_ExpandSetsFlags ==
    /\ \A f \in FieldObjs :
          IF f \in expandedObjs
          THEN Expanded(f) /\ ~Included(f)
          ELSE fieldFlags[f] = flags0[f]
    /\ \A n \in DOMAIN lastInsertBy :
          /\ n \in DOMAIN Fields
          /\ lastInsertBy[n] = "Expand"
                => (Fields[n] \in expandedObjs /\ Expanded(Fields[n]) /\ ~Included(Fields[n]))

\* C7 witness: Expand(f) and then AddField(f) of the same Field, which stays
\* expanded and not included.
C7_Witness ==
    \E n \in DOMAIN Fields :
        /\ lastInsertBy[n] = "AddField"
        /\ Fields[n] \in expandedObjs
        /\ Expanded(Fields[n]) /\ ~Included(Fields[n])

\* C8: the field set holds, per name, the Field last passed to AddField or
\* Expand with that name, and the auxiliary mapping holds, per key, the value
\* of the last OrderBy or WithFilter that wrote the key.
C8_LastWriteWins ==
    /\ DOMAIN Fields = DOMAIN lastFieldPassed
    /\ \A n \in DOMAIN Fields : Fields[n] = lastFieldPassed[n]
    /\ DOMAIN additionalFields = DOMAIN lastAuxWrite
    /\ \A k \in DOMAIN additionalFields : additionalFields[k] = lastAuxWrite[k]

\* C8 witness: "f1" was stored under "age" by Expand and then replaced by
\* "f2", and the key "order" holds a filter's value.
C8_Witness ==
    /\ "f1" \in expandedObjs
    /\ "age" \in DOMAIN Fields
    /\ Fields["age"] = "f2"
    /\ "order" \in DOMAIN additionalFields
    /\ additionalFields["order"] = "30"

\* C9: a WithFilter(fieldName, filter) step, whatever the field set holds,
\* writes filter.value under fieldName__suffix (the bare fieldName when the
\* suffix is empty) and changes no other auxiliary key, no Field, and none
\* of endpoint, collection, id and context; it is possible whenever a
\* builder call is.
C9_WithFilterFrame ==
    /\ [](CanCall => \A n \in FilterNames, fl \in Filters : ENABLED WithFilter(n, fl))
    /\ [][\A n \in FilterNames, fl \in Filters :
            WithFilter(n, fl) =>
              LET key == IF fl.c = "" THEN n ELSE n \o "__" \o fl.c IN
              /\ DOMAIN additionalFields' = DOMAIN additionalFields \cup {key}
              /\ additionalFields'[key] = fl.value
              /\ \A k \in DOMAIN additionalFields \ {key} :
                    additionalFields'[k] = additionalFields[k]
              /\ UNCHANGED <<Fields, fieldFlags, Endpoint, Collection, ID, ctx>>]_vars

\* C9 witness: filters on "age", with and without a suffix, were stored
\* while "age" is not in the field set.
C9_Witness ==
    /\ "age" \notin DOMAIN Fields
    /\ DOMAIN additionalFields = {"age", "age__gt"}
    /\ additionalFields["age__gt"] = "30"
    /\ additionalFields["age"] = "a b"

UrlPrefix == Endpoint \o Collection \o "/" \o (IF ID # "" THEN ID \o "/" ELSE "")

\* C10: the URL ToURL returns is endpoint, collection, "/", then id and "/"
\* exactly when id is non-empty, then "?" and the encoded query exactly when
\* there are parameters.
C10_UrlShape ==
    (ret.op = "ToURL" /\ ret.err = Nil) =>
        /\ ret.url.Head = UrlPrefix
        /\ \E order \in FieldOrders :
              /\ ret.url.RawQuery = Encode(QueryParams(order))
              /\ (ret.url.RawQuery # "") <=> (DOMAIN QueryParams(order) # {})
              /\ UrlString(ret.url) =
                    IF DOMAIN QueryParams(order) # {}
                    THEN UrlPrefix \o "?" \o Encode(QueryParams(order))
                    ELSE UrlPrefix
        /\ (DOMAIN Fields = {} /\ DOMAIN additionalFields = {})
              => UrlString(ret.url) = UrlPrefix

\* C10 witness: a request with an id and a filter was rendered.
C10_Witness ==
    /\ ret.op = "ToURL"
    /\ UrlString(ret.url) = "http://api/users/42/?age__gt=30"

ExecuteReturned == pc = "idle" /\ ret.op = "Execute"
GotResponse     == res.StatusCode # 0

\* what the decoder returns: the error of its read, else of its parse
DecoderResult ==
    IF res.readErr # Nil THEN res.readErr ELSE JsonDecode(res.Body, dest0).err

\* C2 as stated: the status alone decides; outside [200, 300) the error is
\* exactly the body text.
C2_StatusAloneDecides ==
    (ExecuteReturned /\ GotResponse) =>
        IF res.StatusCode >= 200 /\ res.StatusCode < 300
        THEN ret.err = DecoderResult
        ELSE ret.err = res.Body /\ dest = dest0

\* C2 amended: inside [200, 300) the decoder's result is returned; outside
\* it Execute returns an error and leaves the destination as it was, the
\* error being the body text when the body was read and "Unable to read
\* error message from server: ..." when the read failed.
C2_StatusAndRead ==
    (ExecuteReturned /\ GotResponse) =>
        IF res.StatusCode >= 200 /\ res.StatusCode < 300
        THEN /\ ret.err = DecoderResult
             /\ ret.err = Nil => dest = JsonDecode(res.Body, dest0).v
        ELSE /\ dest = dest0
             /\ ret.err # Nil
             /\ ret.err = (IF res.readErr = Nil THEN res.Body
                           ELSE "Unable to read error message from server: " \o res.readErr)

\* C2 witness: status 300 was answered with the body as the error.
C2_Witness ==
    /\ ExecuteReturned
    /\ res.StatusCode = 300
    /\ ret.err = "not found"

\* C3: once the attached context is canceled while Execute is suspended,
\* Execute returns, and what it returns is an error.
C3_CancelReturnsError ==
    /\ (interrupted /\ pc # "idle") ~> (ExecuteReturned /\ ret.err # Nil)
    /\ []((interrupted /\ ExecuteReturned) => ret.err # Nil)

\* C3 witness: Execute returned the cancellation after being interrupted.
C3_Witness ==
    /\ interrupted
    /\ ExecuteReturned
    /\ ret.err = "context canceled"

\* C4: the stored context is never nil, it is the one the last WithContext
\* that returned was given (the background context before any), and a
\* running Execute is bound to it; a WithContext that panicked changed
\* nothing.
C4_ContextNeverNil ==
    /\ ctx \in Contexts
    /\ ctx = lastCtxSet
    /\ pc # "idle" => req.ctx = lastCtxSet
    /\ (ret.op = "WithContext" /\ ret.err # Nil) => ret.err = "panic: nil context"

\* C4 witness: WithContext(nil) panicked after a context had been set.
C4_Witness ==
    /\ ret.op = "WithContext"
    /\ ret.err = "panic: nil context"
    /\ ctx = "c1"

\* C5: the response body is open only while Execute reads it; once Execute
\* has returned it is closed.
C5_BodyClosed ==
    /\ res.open => pc = "body"
    /\ ExecuteReturned => ~res.open

\* C5 witness: a non-2xx response whose body read failed, the body closed.
C5_Witness ==
    /\ ExecuteReturned
    /\ GotResponse
    /\ IsFailureStatus(res.StatusCode)
    /\ res.readErr = "unexpected EOF"
    /\ ~res.open

===========================================================================
